---- MODULE Spec2Model ----
(***************************************************************************)
(* A model of zerepy/d.a.t.a_connection.py: the DataConnection connector.  *)
(* Python str values are sequences of one-character strings, so that       *)
(* len(), lower(), strip(), `in` and the f-strings are computed.           *)
(***************************************************************************)
EXTENDS Integers, Sequences, FiniteSets, TLC

----------------------------------------------------------------------------
(* Bounds of the explored inputs. *)

\* sql arguments are concatenations of at most this many SqlWords
MaxSqlWords == 2
\* data.column_infos has at most this many names
MaxCols == 2
\* a row's items has at most this many values
MaxItems == 2
\* data.rows has at most this many rows
MaxRows == 2

----------------------------------------------------------------------------
(* Python str operations. *)

UpperCase == <<"A","B","C","D","E","F","G","H","I","J","K","L","M","N","O","P","Q","R","S","T","U","V","W","X","Y","Z">>
LowerCase == <<"a","b","c","d","e","f","g","h","i","j","k","l","m","n","o","p","q","r","s","t","u","v","w","x","y","z">>

\* one character of str.lower()
lower_char(c) ==
    IF \E i \in 1..Len(UpperCase) : UpperCase[i] = c
    THEN LowerCase[CHOOSE i \in 1..Len(UpperCase) : UpperCase[i] = c]
    ELSE c

\* str.lower()
lower(s) == [i \in 1..Len(s) |-> lower_char(s[i])]

\* `sub in s` for two str
Contains(sub, s) ==
    \E i \in 0..(Len(s) - Len(sub)) : SubSeq(s, i + 1, i + Len(sub)) = sub

\* the characters str.strip() removes and the regex class \s matches
IsSpace(c) == c \in {" ", "\t", "\n", "\r", "\f"}

\* str.strip()
strip(s) ==
    IF \A i \in 1..Len(s) : IsSpace(s[i]) THEN <<>>
    ELSE LET first == CHOOSE i \in 1..Len(s) :
                          /\ ~IsSpace(s[i])
                          /\ \A j \in 1..(i - 1) : IsSpace(s[j])
             last  == CHOOSE i \in 1..Len(s) :
                          /\ ~IsSpace(s[i])
                          /\ \A j \in (i + 1)..Len(s) : IsSpace(s[j])
         IN  SubSeq(s, first, last)

Digits == <<"0","1","2","3","4","5","6","7","8","9">>

\* str() of a non-negative int, as the f-string of the HTTP status formats it
RECURSIVE IntToStr(_)
IntToStr(n) ==
    IF n < 10 THEN <<Digits[n + 1]>>
    ELSE IntToStr(n \div 10) \o <<Digits[(n % 10) + 1]>>

\* repr() of a str without quotes in it, as str(KeyError(key)) renders the key
repr(s) == <<"'">> \o s \o <<"'">>

----------------------------------------------------------------------------
(* Exceptions and results. *)

\* the value None
None == [type |-> "None"]

\* an exception object; code is the attribute getattr(e, "code", ...) reads
Exception(type, text) == [type |-> type, text |-> text, has_code |-> FALSE, code |-> <<>>]
DataAPIError(text) == Exception("DataAPIError", text)
KeyError(key) == Exception("KeyError", repr(key))
IndexError == Exception("IndexError", <<"l","i","s","t"," ","i","n","d","e","x"," ","o","u","t"," ","o","f"," ","r","a","n","g","e">>)
TypeError(text) == Exception("TypeError", text)
NoException == [type |-> "NoException", text |-> <<>>, has_code |-> FALSE, code |-> <<>>]

\* str(e)
str(e) == e.text

EXECUTION_ERROR == <<"E","X","E","C","U","T","I","O","N","_","E","R","R","O","R">>

\* ErrorResult without the error entry
ErrorResultWithoutError(e) ==
    [ success  |-> FALSE,
      data     |-> <<>>,
      metadata |-> [ total |-> 0, queryType |-> "unknown",
                     executionTime |-> 0, cached |-> FALSE ],
      error    |-> None ]

\* the dictionary the except branch of execute_query returns (queryTime, the
\* wall clock reading, is left out)
ErrorResult(e) ==
    [ success  |-> FALSE,
      data     |-> <<>>,
      metadata |-> [ total |-> 0, queryType |-> "unknown",
                     executionTime |-> 0, cached |-> FALSE ],
      error    |-> [ type    |-> "dict",
                     code    |-> IF e.has_code THEN e.code ELSE EXECUTION_ERROR,
                     message |-> str(e),
                     details |-> str(e) ] ]

\* the dictionary the try branch of execute_query returns
SuccessResult(transformed_data, query_type) ==
    [ success  |-> TRUE,
      data     |-> transformed_data,
      metadata |-> [ total |-> Len(transformed_data), queryType |-> query_type,
                     executionTime |-> 0, cached |-> FALSE ],
      error    |-> None ]

NoResult == [type |-> "NoResult"]

----------------------------------------------------------------------------
(* execute_query: validation and classification. *)

\* the longest sql execute_query accepts
MaxSqlLength == 5000

\* InvalidSql with the limit itself rejected
InvalidSqlOffByOne(sql) == Len(sql) = 0 \/ Len(sql) >= MaxSqlLength

\* the validation of execute_query: `not sql or len(sql) > 5000`
InvalidSql(sql) == Len(sql) = 0 \/ Len(sql) > MaxSqlLength

\* QueryType with the count test first
QueryTypeCountFirst(sql) ==
    IF Contains(<<"c","o","u","n","t">>, lower(sql)) THEN "aggregate"
    ELSE IF Contains(<<"t","o","k","e","n","_","t","r","a","n","s","f","e","r","s">>, lower(sql)) THEN "token"
    ELSE "transaction"

\* the query type execute_query derives from sql
QueryType(sql) ==
    IF Contains(<<"t","o","k","e","n","_","t","r","a","n","s","f","e","r","s">>, lower(sql)) THEN "token"
    ELSE IF Contains(<<"c","o","u","n","t">>, lower(sql)) THEN "aggregate"
    ELSE "transaction"

----------------------------------------------------------------------------
(* _transform_api_response. *)

\* RowData pairing the names with the items the way zip() does, stopping at
\* the shorter of the two
RECURSIVE RowDataZip(_, _, _, _)
RowDataZip(column_infos, items, i, row_data) ==
    IF i > Len(items) \/ i > Len(column_infos)
    THEN [ok |-> TRUE, value |-> row_data, exc |-> NoException]
    ELSE RowDataZip(column_infos, items, i + 1,
                    (column_infos[i] :> items[i]) @@ row_data)

\* row_data after the inner loop over enumerate(row["items"]) from index i on;
\* an exception when column_infos[i] does not exist
RECURSIVE RowData(_, _, _, _)
RowData(column_infos, items, i, row_data) ==
    IF i > Len(items) THEN [ok |-> TRUE, value |-> row_data, exc |-> NoException]
    ELSE IF i > Len(column_infos)
         THEN [ok |-> FALSE, value |-> <<>>, exc |-> IndexError]
         ELSE RowData(column_infos, items, i + 1,
                      (column_infos[i] :> items[i]) @@ row_data)

\* TransformRows putting each new record in front
RECURSIVE TransformRowsReversed(_, _, _, _)
TransformRowsReversed(column_infos, rows, r, transformed_data) ==
    IF r > Len(rows)
    THEN [ok |-> TRUE, value |-> transformed_data, exc |-> NoException]
    ELSE IF ~rows[r].has_items
         THEN [ok |-> FALSE, value |-> <<>>, exc |-> KeyError(<<"i","t","e","m","s">>)]
         ELSE LET row == RowData(column_infos, rows[r].items, 1, <<>>)
              IN  IF ~row.ok THEN row
                  ELSE TransformRowsReversed(column_infos, rows, r + 1,
                                             <<row.value>> \o transformed_data)

\* transformed_data after the outer loop over rows from row r on
RECURSIVE TransformRows(_, _, _, _)
TransformRows(column_infos, rows, r, transformed_data) ==
    IF r > Len(rows)
    THEN [ok |-> TRUE, value |-> transformed_data, exc |-> NoException]
    ELSE IF ~rows[r].has_items
         THEN [ok |-> FALSE, value |-> <<>>, exc |-> KeyError(<<"i","t","e","m","s">>)]
         ELSE LET row == RowData(column_infos, rows[r].items, 1, <<>>)
              IN  IF ~row.ok THEN row
                  ELSE TransformRows(column_infos, rows, r + 1,
                                     Append(transformed_data, row.value))

\* _transform_api_response(api_response): the list of records, or the
\* exception a missing key or a missing column raises
_transform_api_response(api_response) ==
    IF ~api_response.is_dict
    THEN [ok |-> FALSE, value |-> <<>>,
          exc |-> TypeError(<<"l","i","s","t"," ","i","n","d","i","c","e","s"," ","m","u","s","t"," ","b","e"," ","i","n","t","e","g","e","r","s"," ","o","r"," ","s","l","i","c","e","s",","," ","n","o","t"," ","s","t","r">>)]
    ELSE IF "data" \notin api_response.keys
    THEN [ok |-> FALSE, value |-> <<>>, exc |-> KeyError(<<"d","a","t","a">>)]
    ELSE IF "column_infos" \notin api_response.data.keys
    THEN [ok |-> FALSE, value |-> <<>>, exc |-> KeyError(<<"c","o","l","u","m","n","_","i","n","f","o","s">>)]
    ELSE IF "rows" \notin api_response.data.keys
    THEN [ok |-> FALSE, value |-> <<>>, exc |-> KeyError(<<"r","o","w","s">>)]
    ELSE TransformRows(api_response.data.column_infos, api_response.data.rows,
                       1, <<>>)

----------------------------------------------------------------------------
(* JSON-like values: what json.loads returns and find_sql_query walks. *)

JNull == [t |-> "null", s |-> <<>>, n |-> 0, b |-> FALSE, keys |-> <<>>, items |-> <<>>]
JStr(s) == [t |-> "str", s |-> s, n |-> 0, b |-> FALSE, keys |-> <<>>, items |-> <<>>]
JNum(n) == [t |-> "num", s |-> <<>>, n |-> n, b |-> FALSE, keys |-> <<>>, items |-> <<>>]
JBool(b) == [t |-> "bool", s |-> <<>>, n |-> 0, b |-> b, keys |-> <<>>, items |-> <<>>]
JList(items) ==
    [t |-> "list", s |-> <<>>, n |-> 0, b |-> FALSE, keys |-> <<>>, items |-> items]
\* a dict in iteration order: keys[i] maps to items[i], the keys distinct
JDict(keys, items) ==
    [t |-> "dict", s |-> <<>>, n |-> 0, b |-> FALSE, keys |-> keys, items |-> items]

\* `key in obj` for a dict
HasKey(obj, key) == \E i \in 1..Len(obj.keys) : obj.keys[i] = key

\* obj[key] for a dict that has the key
GetItem(obj, key) == obj.items[CHOOSE i \in 1..Len(obj.keys) : obj.keys[i] = key]

\* `not obj`
Falsy(obj) ==
    \/ obj.t = "null"
    \/ obj.t = "bool" /\ ~obj.b
    \/ obj.t = "num" /\ obj.n = 0
    \/ obj.t = "str" /\ obj.s = <<>>
    \/ obj.t \in {"list", "dict"} /\ obj.items = <<>>

\* an Optional[str] that is a str
Some(s) == [type |-> "str", value |-> s]

\* `if result:` for an Optional[str]
Truthy(result) == result # None /\ result.value # <<>>

----------------------------------------------------------------------------
(* find_sql_query, the search inside _extract_sql_query. *)

unsafe_keywords == <<<<"d","r","o","p">>, <<"d","e","l","e","t","e">>, <<"u","p","d","a","t","e">>, <<"i","n","s","e","r","t">>, <<"a","l","t","e","r">>, <<"c","r","e","a","t","e">>>>

\* re.match(sql_pattern, clean_str, re.IGNORECASE) for the pattern
\* ^\s*(SELECT|WITH)\s+[\s\S]+?(?:;|$): blanks, the keyword in any case, at
\* least one blank and at least one more character; the lazy [\s\S]+? can
\* always run to the end of the string, where $ matches
MatchesSqlPattern(clean_str) ==
    \E lead \in 0..Len(clean_str) : \E kw \in {<<"s","e","l","e","c","t">>, <<"w","i","t","h">>} :
        /\ \A j \in 1..lead : IsSpace(clean_str[j])
        /\ Len(clean_str) >= lead + Len(kw) + 2
        /\ lower(SubSeq(clean_str, lead + 1, lead + Len(kw))) = kw
        /\ IsSpace(clean_str[lead + Len(kw) + 1])

\* the string case without the test for unsafe keywords
find_in_str_unchecked(s) ==
    LET clean_str == strip(s)
    IN  IF clean_str = <<>> THEN None
        ELSE IF MatchesSqlPattern(clean_str) THEN Some(clean_str)
        ELSE None

\* the string case of find_sql_query
find_in_str(s) ==
    LET clean_str == strip(s)
    IN  IF clean_str = <<>> THEN None
        ELSE IF \E k \in 1..Len(unsafe_keywords) :
                    Contains(unsafe_keywords[k], lower(clean_str))
        THEN None
        ELSE IF MatchesSqlPattern(clean_str) THEN Some(clean_str)
        ELSE None

RECURSIVE find_sql_query(_)

\* the for loops of find_sql_query over items[i..]: the first truthy result
RECURSIVE find_in_items(_, _)
find_in_items(items, i) ==
    IF i > Len(items) THEN None
    ELSE LET result == find_sql_query(items[i])
         IN  IF Truthy(result) THEN result ELSE find_in_items(items, i + 1)

\* find_sql_query(obj)
find_sql_query(obj) ==
    IF Falsy(obj) THEN None
    ELSE IF obj.t = "str" THEN find_in_str(obj.s)
    ELSE IF obj.t = "list" THEN find_in_items(obj.items, 1)
    ELSE IF obj.t = "dict"
    THEN LET first == IF HasKey(obj, <<"q","u","e","r","y">>) /\ HasKey(obj, <<"s","q","l">>)
                      THEN find_sql_query(GetItem(obj, <<"q","u","e","r","y">>))
                      ELSE None
         IN  IF Truthy(first) THEN first ELSE find_in_items(obj.items, 1)
    ELSE None

----------------------------------------------------------------------------
(* json.loads, for the texts explored: strings with the one-letter escapes,  *)
(* integers, true, false, null, arrays and objects.  (\b, \uXXXX, fractions  *)
(* and exponents do not occur in the explored texts and are refused here.)   *)

ParseFail == [ok |-> FALSE, value |-> JNull, pos |-> 0]
ParseOk(value, pos) == [ok |-> TRUE, value |-> value, pos |-> pos]

\* the whitespace the JSON decoder skips
IsJsonSpace(c) == c \in {" ", "\t", "\n", "\r"}

\* the first index from i on that holds no JSON whitespace (Len(s) + 1 if none)
SkipSpace(s, i) ==
    CHOOSE j \in i..(Len(s) + 1) :
        /\ \A k \in i..(j - 1) : IsJsonSpace(s[k])
        /\ (j = Len(s) + 1 \/ ~IsJsonSpace(s[j]))

\* s holds lit from index i on
StartsWithAt(s, i, lit) ==
    /\ i + Len(lit) - 1 <= Len(s)
    /\ SubSeq(s, i, i + Len(lit) - 1) = lit

\* the characters of a string literal from index i (after the opening quote)
\* up to the closing quote; chars are the characters read so far
RECURSIVE ScanString(_, _, _)
ScanString(s, i, chars) ==
    IF i > Len(s) THEN [ok |-> FALSE, str |-> <<>>, pos |-> 0]
    ELSE IF s[i] = "\"" THEN [ok |-> TRUE, str |-> chars, pos |-> i + 1]
    ELSE IF s[i] \in {"\t", "\n", "\r", "\f"}
    THEN [ok |-> FALSE, str |-> <<>>, pos |-> 0]
    ELSE IF s[i] = "\\"
    THEN IF i + 1 > Len(s) THEN [ok |-> FALSE, str |-> <<>>, pos |-> 0]
         ELSE IF s[i + 1] \in {"\"", "\\", "/"}
         THEN ScanString(s, i + 2, Append(chars, s[i + 1]))
         ELSE IF s[i + 1] = "n" THEN ScanString(s, i + 2, Append(chars, "\n"))
         ELSE IF s[i + 1] = "t" THEN ScanString(s, i + 2, Append(chars, "\t"))
         ELSE IF s[i + 1] = "r" THEN ScanString(s, i + 2, Append(chars, "\r"))
         ELSE IF s[i + 1] = "f" THEN ScanString(s, i + 2, Append(chars, "\f"))
         ELSE [ok |-> FALSE, str |-> <<>>, pos |-> 0]
    ELSE ScanString(s, i + 1, Append(chars, s[i]))

IsDigit(c) == \E d \in 1..Len(Digits) : Digits[d] = c
DigitValue(c) == (CHOOSE d \in 1..Len(Digits) : Digits[d] = c) - 1

\* the index after the run of digits that starts at i
DigitsEnd(s, i) ==
    CHOOSE j \in i..(Len(s) + 1) :
        /\ \A k \in i..(j - 1) : IsDigit(s[k])
        /\ (j = Len(s) + 1 \/ ~IsDigit(s[j]))

\* the value of the digits s[i..j-1]
RECURSIVE DigitsValue(_, _, _)
DigitsValue(s, i, j) ==
    IF j <= i THEN 0 ELSE DigitsValue(s, i, j - 1) * 10 + DigitValue(s[j - 1])

\* an integer literal at index i: -?(0|[1-9][0-9]*)
ParseNumber(s, i) ==
    LET negative == s[i] = "-"
        first == IF negative THEN i + 1 ELSE i
        end == IF first <= Len(s) /\ s[first] = "0" THEN first + 1
               ELSE DigitsEnd(s, first)
    IN  IF first > Len(s) \/ end = first THEN ParseFail
        ELSE ParseOk(JNum(IF negative THEN 0 - DigitsValue(s, first, end)
                          ELSE DigitsValue(s, first, end)), end)

\* dict(pairs) one pair at a time: a repeated key keeps its place and takes
\* the later value
SetItem(keys, items, key, value) ==
    IF \E i \in 1..Len(keys) : keys[i] = key
    THEN [keys |-> keys,
          items |-> [items EXCEPT ![CHOOSE i \in 1..Len(keys) : keys[i] = key] = value]]
    ELSE [keys |-> Append(keys, key), items |-> Append(items, value)]

RECURSIVE ParseValue(_, _)
RECURSIVE ParseElements(_, _, _)
RECURSIVE ParseMembers(_, _, _, _)

\* the elements of an array from index i (at a value) on
ParseElements(s, i, items) ==
    LET v == ParseValue(s, i)
        j == SkipSpace(s, v.pos)
    IN  IF ~v.ok THEN ParseFail
        ELSE IF j > Len(s) THEN ParseFail
        ELSE IF s[j] = "]" THEN ParseOk(JList(Append(items, v.value)), j + 1)
        ELSE IF s[j] = ","
        THEN ParseElements(s, SkipSpace(s, j + 1), Append(items, v.value))
        ELSE ParseFail

\* the members of an object from index i (at a key) on
ParseMembers(s, i, keys, items) ==
    IF i > Len(s) \/ s[i] # "\"" THEN ParseFail
    ELSE LET key == ScanString(s, i + 1, <<>>)
             colon == SkipSpace(s, key.pos)
         IN  IF ~key.ok THEN ParseFail
             ELSE IF colon > Len(s) \/ s[colon] # ":" THEN ParseFail
             ELSE LET v == ParseValue(s, SkipSpace(s, colon + 1))
                      j == SkipSpace(s, v.pos)
                      d == SetItem(keys, items, key.str, v.value)
                  IN  IF ~v.ok THEN ParseFail
                      ELSE IF j > Len(s) THEN ParseFail
                      ELSE IF s[j] = "}" THEN ParseOk(JDict(d.keys, d.items), j + 1)
                      ELSE IF s[j] = ","
                      THEN ParseMembers(s, SkipSpace(s, j + 1), d.keys, d.items)
                      ELSE ParseFail

\* the JSON value that starts at index i
ParseValue(s, i) ==
    IF i > Len(s) THEN ParseFail
    ELSE IF s[i] = "\""
    THEN LET literal == ScanString(s, i + 1, <<>>)
         IN  IF literal.ok THEN ParseOk(JStr(literal.str), literal.pos) ELSE ParseFail
    ELSE IF s[i] = "["
    THEN LET j == SkipSpace(s, i + 1)
         IN  IF j <= Len(s) /\ s[j] = "]" THEN ParseOk(JList(<<>>), j + 1)
             ELSE ParseElements(s, j, <<>>)
    ELSE IF s[i] = "{"
    THEN LET j == SkipSpace(s, i + 1)
         IN  IF j <= Len(s) /\ s[j] = "}" THEN ParseOk(JDict(<<>>, <<>>), j + 1)
             ELSE ParseMembers(s, j, <<>>, <<>>)
    ELSE IF StartsWithAt(s, i, <<"n","u","l","l">>) THEN ParseOk(JNull, i + 4)
    ELSE IF StartsWithAt(s, i, <<"t","r","u","e">>) THEN ParseOk(JBool(TRUE), i + 4)
    ELSE IF StartsWithAt(s, i, <<"f","a","l","s","e">>) THEN ParseOk(JBool(FALSE), i + 5)
    ELSE IF s[i] = "-" \/ IsDigit(s[i]) THEN ParseNumber(s, i)
    ELSE ParseFail

\* json.loads(text): ok is FALSE where it raises JSONDecodeError
json_loads(text) ==
    LET v == ParseValue(text, SkipSpace(text, 1))
    IN  IF v.ok /\ SkipSpace(text, v.pos) = Len(text) + 1 THEN v ELSE ParseFail

----------------------------------------------------------------------------
(* _extract_sql_query. *)

\* the except branch of json.loads with the raw text searched as the value
SearchRawText(text) == find_sql_query(JStr(text))

\* the except json.JSONDecodeError branch: log and return None
OnJSONDecodeError(text) == None

\* json_data as _extract_sql_query sets it: the parse of a str argument, the
\* argument itself otherwise
LoadPreResponse(pre_response) ==
    IF pre_response.t = "str" THEN json_loads(pre_response.s)
    ELSE ParseOk(pre_response, 0)

\* _extract_sql_query(pre_response)
_extract_sql_query(pre_response) ==
    LET json_data == LoadPreResponse(pre_response)
    IN  IF ~json_data.ok THEN OnJSONDecodeError(pre_response.s)
        ELSE find_sql_query(json_data.value)

----------------------------------------------------------------------------
(* _send_sql_query and the rest of execute_query. *)

\* what the with-block of _send_sql_query yields for one outcome of the POST:
\* the exception session.post or response.json() raised, re-raised by the
\* except clause, the DataAPIError of a status other than 200, or the body
_send_sql_query(outcome) ==
    IF outcome.kind = "raise"
    THEN [ok |-> FALSE, value |-> outcome.body, exc |-> outcome.exc]
    ELSE IF outcome.status # 200
    THEN [ok |-> FALSE, value |-> outcome.body,
          exc |-> DataAPIError(<<"H","T","T","P"," ","e","r","r","o","r","!"," ","s","t","a","t","u","s",":"," ">> \o IntToStr(outcome.status))]
    ELSE IF outcome.kind = "bad_json"
    THEN [ok |-> FALSE, value |-> outcome.body, exc |-> outcome.exc]
    ELSE [ok |-> TRUE, value |-> outcome.body, exc |-> NoException]

\* the try block of execute_query from the await on: the success dictionary,
\* or the exception raised on the way
AfterSend(query_type, outcome) ==
    LET sent == _send_sql_query(outcome)
        api_response == sent.value
    IN  IF ~sent.ok THEN [ok |-> FALSE, value |-> NoResult, exc |-> sent.exc]
        ELSE IF ~api_response.is_dict
        THEN [ok |-> FALSE, value |-> NoResult,
              exc |-> TypeError(<<"l","i","s","t"," ","i","n","d","i","c","e","s"," ","m","u","s","t"," ","b","e"," ","i","n","t","e","g","e","r","s"," ","o","r"," ","s","l","i","c","e","s",","," ","n","o","t"," ","s","t","r">>)]
        ELSE IF "code" \notin api_response.keys
        THEN [ok |-> FALSE, value |-> NoResult, exc |-> KeyError(<<"c","o","d","e">>)]
        ELSE IF api_response.code # 0
        THEN IF "msg" \notin api_response.keys
             THEN [ok |-> FALSE, value |-> NoResult, exc |-> KeyError(<<"m","s","g">>)]
             ELSE [ok |-> FALSE, value |-> NoResult,
                   exc |-> DataAPIError(<<"A","P","I"," ","E","r","r","o","r",":"," ">> \o api_response.msg)]
        ELSE LET transformed_data == _transform_api_response(api_response)
             IN  IF ~transformed_data.ok
                 THEN [ok |-> FALSE, value |-> NoResult, exc |-> transformed_data.exc]
                 ELSE [ok |-> TRUE, exc |-> NoException,
                       value |-> SuccessResult(transformed_data.value, query_type)]

\* an except clause that catches the connector's own errors only
CaughtByExceptDataAPIError(e) == e.type = "DataAPIError"

\* the classes `except Exception` catches: every exception of the model
\* derives from Exception
CaughtByExceptException(e) ==
    e.type \in {"DataAPIError", "KeyError", "IndexError", "TypeError",
                "ClientConnectorError", "TimeoutError", "ContentTypeError"}

\* what execute_query hands to its caller once its try block ended with
\* `attempt`: the returned dictionary and the exception that escapes
CallerGets(attempt) ==
    IF attempt.ok THEN [result |-> attempt.value, raised |-> NoException]
    ELSE IF CaughtByExceptException(attempt.exc)
    THEN [result |-> ErrorResult(attempt.exc), raised |-> NoException]
    ELSE [result |-> NoResult, raised |-> attempt.exc]

----------------------------------------------------------------------------
(* The inputs explored. *)

\* all sequences over S of length at most n
SeqsUpTo(S, n) == UNION {[1..k -> S] : k \in 0..n}

\* the concatenation of a sequence of str
RECURSIVE Concat(_)
Concat(ws) == IF ws = <<>> THEN <<>> ELSE Head(ws) \o Concat(Tail(ws))

SqlWords ==
    { <<"S","E","L","E","C","T"," ","*"," ","F","R","O","M"," ">>, <<"S","E","L","E","C","T"," ","C","O","U","N","T","(","*",")"," ","F","R","O","M"," ">>, <<"t","r","a","n","s","a","c","t","i","o","n","s">>, <<"t","o","k","e","n","_","t","r","a","n","s","f","e","r","s">>,
      <<"T","o","k","e","n","_","T","R","A","N","S","F","E","R","S">>, <<"t","o","k","e","n","_">>, <<"t","r","a","n","s","f","e","r","s">>, <<"a","c","c","o","u","n","t">> }

\* s followed by blanks up to length n
PadTo(s, n) == s \o [i \in 1..(n - Len(s)) |-> " "]

\* sql arguments around the length limit
LongSqls ==
    { PadTo(w, n) : w \in {<<"S","E","L","E","C","T"," ","C","O","U","N","T","(","*",")"," ","F","R","O","M"," ","t">>, <<"S","E","L","E","C","T"," ","*"," ","F","R","O","M"," ","t","o","k","e","n","_","t","r","a","n","s","f","e","r","s">>},
                    n \in {MaxSqlLength - 1, MaxSqlLength, MaxSqlLength + 1} }

\* the sql arguments of the specification SpecSql
SqlInputs == {Concat(ws) : ws \in SeqsUpTo(SqlWords, MaxSqlWords)} \cup LongSqls

\* the sql arguments of the specification Spec
SqlSamples ==
    { <<>>, <<"S","E","L","E","C","T"," ","*"," ","F","R","O","M"," ","t","r","a","n","s","a","c","t","i","o","n","s">>, <<"S","E","L","E","C","T"," ","C","O","U","N","T","(","*",")"," ","F","R","O","M"," ","t","o","k","e","n","_","t","r","a","n","s","f","e","r","s">> }

ColumnNames == {"a", "b"}
ItemValues == {1, 2}

Row(items) == [has_items |-> TRUE, items |-> items]
RowWithoutItems == [has_items |-> FALSE, items |-> <<>>]

Data(keys, column_infos, rows) ==
    [keys |-> keys, column_infos |-> column_infos, rows |-> rows]

Body(keys, code, msg, data) ==
    [is_dict |-> TRUE, keys |-> keys, code |-> code, msg |-> msg, data |-> data]

NoData == Data({}, <<>>, <<>>)
NoBody == [is_dict |-> FALSE, keys |-> {}, code |-> 0, msg |-> <<>>, data |-> NoData]

\* bodies of the documented shape with code 0
OkBodies ==
    { Body({"code", "msg", "data"}, 0, <<"o","k">>, Data({"column_infos", "rows"}, c, r)) :
        c \in SeqsUpTo(ColumnNames, MaxCols),
        r \in SeqsUpTo({Row(i) : i \in SeqsUpTo(ItemValues, MaxItems)}, MaxRows) }

\* bodies reporting an application error
ErrBodies ==
    { Body(k, c, m, NoData) : k \in {{"code", "msg"}, {"code", "msg", "data"}, {"code"}},
                              c \in {1, -1}, m \in {<<"b","a","d"," ","q","u","e","r","y">>, <<>>} }

\* bodies that are not of the documented shape
MalformedBodies ==
    { NoBody,
      Body({"msg", "data"}, 0, <<"o","k">>, Data({"column_infos", "rows"}, <<"a">>, <<Row(<<1>>)>>)),
      Body({"code", "msg"}, 0, <<"o","k">>, NoData),
      Body({"code", "msg", "data"}, 0, <<"o","k">>, Data({"rows"}, <<>>, <<Row(<<1>>)>>)),
      Body({"code", "msg", "data"}, 0, <<"o","k">>, Data({"column_infos"}, <<"a">>, <<>>)),
      Body({"code", "msg", "data"}, 0, <<"o","k">>,
           Data({"column_infos", "rows"}, <<"a">>, <<Row(<<1>>), RowWithoutItems>>)) }

Response(status, body) ==
    [kind |-> "response", status |-> status, body |-> body, exc |-> NoException]

\* outcomes in which session.post raises, or response.json() does
Failures ==
    { [kind |-> "raise", status |-> 0, body |-> NoBody,
       exc |-> Exception("ClientConnectorError", <<"C","a","n","n","o","t"," ","c","o","n","n","e","c","t"," ","t","o"," ","h","o","s","t">>)],
      [kind |-> "raise", status |-> 0, body |-> NoBody,
       exc |-> Exception("TimeoutError", <<>>)],
      [kind |-> "bad_json", status |-> 200, body |-> NoBody,
       exc |-> [type |-> "ContentTypeError", text |-> <<"u","n","e","x","p","e","c","t","e","d"," ","m","i","m","e","t","y","p","e">>,
                has_code |-> TRUE, code |-> <<"2","0","0">>]],
      [kind |-> "bad_json", status |-> 500, body |-> NoBody,
       exc |-> [type |-> "ContentTypeError", text |-> <<"u","n","e","x","p","e","c","t","e","d"," ","m","i","m","e","t","y","p","e">>,
                has_code |-> TRUE, code |-> <<"5","0","0">>]] }

SampleBody ==
    Body({"code", "msg", "data"}, 0, <<"o","k">>,
         Data({"column_infos", "rows"}, <<"a", "b">>, <<Row(<<1, 2>>), Row(<<2, 1>>)>>))

\* the outcomes of the specification Spec
Outcomes ==
    Failures
    \cup {Response(200, b) : b \in OkBodies \cup ErrBodies \cup MalformedBodies}
    \cup {Response(s, SampleBody) : s \in {404, 500}}

\* the outcomes of the specification SpecSql
OutcomeSamples ==
    { Response(200, SampleBody), Response(500, SampleBody),
      Response(200, Body({"code", "msg"}, 1, <<"b","a","d"," ","q","u","e","r","y">>, NoData)) }

---------------------------------------------------------------------------------------------------------------------------------------------------
(* The state. *)

VARIABLES
    pc,            \* "idle", "awaiting" (the POST is in flight) or "done"
    action_name,   \* the first argument of perform_action
    kwargs,        \* the second argument of perform_action, a dict
    method_name,   \* the method perform_action called, <<>> if none
    sql,           \* the argument of execute_query
    query_type,    \* the local of execute_query
    posts,         \* the HTTP POSTs issued during the invocation
    outcome,       \* what the POST came back with
    result,        \* the value returned to the caller
    raised,        \* the exception that reached the caller
    pre_response,  \* the argument of _extract_sql_query
    json_data,     \* the local of _extract_sql_query that is searched
    sql_query      \* what _extract_sql_query returned

vars == <<pc, action_name, kwargs, method_name, sql, query_type, posts, outcome,
          result, raised, pre_response, json_data, sql_query>>

action_vars == <<action_name, kwargs, method_name>>
extract_vars == <<pre_response, json_data, sql_query>>

NoOutcome == [kind |-> "none", status |-> 0, body |-> NoBody, exc |-> NoException]
NotCalled == [type |-> "NotCalled"]
NoJson == [t |-> "unset", s |-> <<>>, n |-> 0, b |-> FALSE, keys |-> <<>>, items |-> <<>>]

\* no call of perform_action or execute_query was made
NoCall ==
    /\ pc = "idle"
    /\ action_name = <<>>
    /\ kwargs = JDict(<<>>, <<>>)
    /\ method_name = <<>>
    /\ sql = <<>>
    /\ query_type = "unset"
    /\ posts = 0
    /\ outcome = NoOutcome
    /\ result = NoResult
    /\ raised = NoException

\* the connector after construction, before any call
Init ==
    /\ NoCall
    /\ pre_response = JNull
    /\ json_data = NoJson
    /\ sql_query = NotCalled

\* execute_query(s) up to the await of _send_sql_query: validation,
\* classification and the POST; an invalid sql ends the call at once
ExecuteQueryStart(s) ==
    /\ sql' = s
    /\ IF InvalidSql(s)
       THEN LET out == CallerGets([ok |-> FALSE, value |-> NoResult,
                                exc |-> DataAPIError(<<"I","n","v","a","l","i","d"," ","S","Q","L"," ","q","u","e","r","y"," ","l","e","n","g","t","h">>)])
            IN  /\ pc' = "done"
                /\ result' = out.result
                /\ raised' = out.raised
                /\ UNCHANGED <<query_type, posts>>
       ELSE /\ pc' = "awaiting"
            /\ query_type' = QueryType(s)
            /\ posts' = posts + 1
            /\ UNCHANGED <<result, raised>>
    /\ UNCHANGED outcome

\* a call of execute_query(s)
ExecuteQuery(s) ==
    /\ pc = "idle"
    /\ ExecuteQueryStart(s)
    /\ UNCHANGED <<action_vars, extract_vars>>

\* execute_query from the await on, once the POST came back with o
ReceiveResponse(o) ==
    /\ pc = "awaiting"
    /\ outcome' = o
    /\ LET out == CallerGets(AfterSend(query_type, o))
       IN  /\ result' = out.result
           /\ raised' = out.raised
    /\ pc' = "done"
    /\ UNCHANGED <<sql, query_type, posts, action_vars, extract_vars>>

\* (the guards are repeated ahead of the quantifiers so that a state in which
\* an action is disabled does not enumerate its inputs)
Call == pc = "idle" /\ \E s \in SqlSamples : ExecuteQuery(s)
Receive == pc = "awaiting" /\ \E o \in Outcomes : ReceiveResponse(o)
Next == Call \/ Receive
Spec == Init /\ [][Next]_vars

CallSql == pc = "idle" /\ \E s \in SqlInputs : ExecuteQuery(s)
ReceiveSample == pc = "awaiting" /\ \E o \in OutcomeSamples : ReceiveResponse(o)
NextSql == CallSql \/ ReceiveSample
SpecSql == Init /\ [][NextSql]_vars

----------------------------------------------------------------------------
(* _extract_sql_query on the explored arguments. *)

\* the structures have at most this many nodes (scalars, lists and dicts)
MaxNodes == 4
\* the texts are concatenations of at most this many TextTokens
MaxTextTokens == 3

LeafValues ==
    { JStr(<<"S","E","L","E","C","T"," ","1">>), JStr(<<" "," ","w","i","t","h"," ","t"," ","a","s"," ","(","s","e","l","e","c","t"," ","2",")"," ">>), JStr(<<"S","E","L","E","C","T"," ","*"," ","F","R","O","M"," ","u","p","d","a","t","e","s">>),
      JStr(<<"h","e","l","l","o">>), JNum(7) }

DictKeys == {<<"s","q","l">>, <<"q","u","e","r","y">>}

\* the sequences of distinct keys
KeySeqs ==
    {ks \in SeqsUpTo(DictKeys, Cardinality(DictKeys)) :
        \A i, j \in 1..Len(ks) : i # j => ks[i] # ks[j]}

\* the lists and dicts over the sequences of items in item_seqs
Containers(item_seqs) ==
    {JList(items) : items \in item_seqs}
    \cup {JDict(c[1], c[2]) :
             c \in {d \in KeySeqs \X item_seqs : Len(d[1]) = Len(d[2])}}

\* entry k of SizeTable(n), for k in 1..n: the values with exactly k nodes and
\* the sequences of values with k nodes in all
RECURSIVE SizeTable(_)
SizeTable(n) ==
    IF n = 0 THEN <<>>
    ELSE LET table == SizeTable(n - 1)
             ItemsOfSize(m) == IF m = 0 THEN {<<>>} ELSE table[m].items
             values == (IF n = 1 THEN LeafValues ELSE {})
                       \cup Containers(ItemsOfSize(n - 1))
             ValuesOfSize(k) == IF k = n THEN values ELSE table[k].values
             items == UNION { {<<v>> \o rest : v \in ValuesOfSize(k),
                                               rest \in ItemsOfSize(n - k)} :
                              k \in 1..n }
         IN  Append(table, [values |-> values, items |-> items])

\* the structures handed to _extract_sql_query: the values of at most
\* MaxNodes nodes
StructInputs ==
    LET table == SizeTable(MaxNodes - 1)
        largest == IF MaxNodes = 1 THEN LeafValues \cup Containers({<<>>})
                   ELSE Containers(table[MaxNodes - 1].items)
    IN  largest \cup UNION {table[k].values : k \in 1..(MaxNodes - 1)}

TextTokens ==
    { <<"[">>, <<"]">>, <<"{","\"","s","q","l","\"",":">>, <<"}">>, <<"\"","S","E","L","E","C","T"," ","*"," ","F","R","O","M"," ","t","\"">>, <<"\"","D","R","O","P"," ","T","A","B","L","E"," ","x","\"",",">>,
      <<"S","E","L","E","C","T"," ","*"," ","F","R","O","M"," ","t">>, <<"n","u","l","l">>, <<"7">>, <<" ">> }

\* the str arguments handed to _extract_sql_query
TextInputs == {JStr(Concat(ws)) : ws \in SeqsUpTo(TextTokens, MaxTextTokens)}

PreResponses == StructInputs \cup TextInputs

\* a caller holding the argument p, before the call
InitExtract ==
    /\ NoCall
    /\ pre_response \in PreResponses
    /\ json_data = NoJson
    /\ sql_query = NotCalled

\* the call _extract_sql_query(pre_response)
ExtractSqlQuery ==
    /\ pc = "idle"
    /\ LET loaded == LoadPreResponse(pre_response)
       IN  json_data' = IF loaded.ok THEN loaded.value ELSE NoJson
    /\ sql_query' = _extract_sql_query(pre_response)
    /\ pc' = "done"
    /\ UNCHANGED <<action_vars, sql, query_type, posts, outcome, result, raised,
                   pre_response>>

NextExtract == ExtractSqlQuery
SpecExtract == InitExtract /\ [][NextExtract]_vars

----------------------------------------------------------------------------
(* register_actions and perform_action. *)

ActionParameter(name, required, type) ==
    [name |-> name, required |-> required, type |-> type]

Action(name, parameters) == [name |-> name, parameters |-> parameters]

\* self.actions once register_actions ran, which the base class constructor
\* does: the three actions, by name
actions ==
    { Action(<<"e","x","e","c","u","t","e","-","q","u","e","r","y">>, <<ActionParameter(<<"s","q","l">>, TRUE, "str")>>),
      Action(<<"g","e","t","-","s","c","h","e","m","a">>, <<>>),
      Action(<<"g","e","t","-","e","x","a","m","p","l","e","s">>, <<>>) }

\* the attributes getattr finds on a DataConnection
Attributes ==
    { <<"c","h","a","i","n">>, <<"a","p","i","_","u","r","l">>, <<"a","u","t","h","_","t","o","k","e","n">>, <<"a","c","t","i","o","n","s">>, <<"i","s","_","l","l","m","_","p","r","o","v","i","d","e","r">>,
      <<"v","a","l","i","d","a","t","e","_","c","o","n","f","i","g">>, <<"r","e","g","i","s","t","e","r","_","a","c","t","i","o","n","s">>, <<"_","e","x","t","r","a","c","t","_","s","q","l","_","q","u","e","r","y">>,
      <<"_","s","e","n","d","_","s","q","l","_","q","u","e","r","y">>, <<"_","t","r","a","n","s","f","o","r","m","_","a","p","i","_","r","e","s","p","o","n","s","e">>, <<"e","x","e","c","u","t","e","_","q","u","e","r","y">>,
      <<"g","e","t","_","d","a","t","a","b","a","s","e","_","s","c","h","e","m","a">>, <<"g","e","t","_","q","u","e","r","y","_","e","x","a","m","p","l","e","s">>, <<"c","o","n","f","i","g","u","r","e">>,
      <<"i","s","_","c","o","n","f","i","g","u","r","e","d">>, <<"p","e","r","f","o","r","m","_","a","c","t","i","o","n">> }

\* the keyword parameters of the methods a dispatch can call
Signature(method) ==
    IF method = <<"e","x","e","c","u","t","e","_","q","u","e","r","y">> THEN {<<"s","q","l">>} ELSE {}

\* the text get_database_schema returns (its two statements, shortened)
get_database_schema ==
    Some(<<"C","R","E","A","T","E"," ","E","X","T","E","R","N","A","L"," ","T","A","B","L","E"," ","t","r","a","n","s","a","c","t","i","o","n","s","(",".",".",".",")",";"," ","C","R","E","A","T","E"," ","E","X","T","E","R","N","A","L"," ","T","A","B","L","E"," ","t","o","k","e","n","_","t","r","a","n","s","f","e","r","s","(",".",".",".",")",";">>)

\* the text get_query_examples returns (shortened)
get_query_examples ==
    Some(<<"C","o","m","m","o","n"," ","Q","u","e","r","y"," ","E","x","a","m","p","l","e","s",":"," ","1","."," ","F","i","n","d"," ","M","o","s","t"," ","A","c","t","i","v","e"," ","A","d","d","r","e","s","s","e","s"," ","i","n"," ","L","a","s","t"," ","7"," ","D","a","y","s",":"," ",".",".","."," ","2","."," ","A","n","a","l","y","z","e"," ","A","d","d","r","e","s","s"," ","T","r","a","n","s","a","c","t","i","o","n"," ","S","t","a","t","i","s","t","i","c","s"," ","(","L","a","s","t"," ","3","0"," ","D","a","y","s",")",":"," ",".",".",".">>)

\* action_name.replace('-', '_')
replace_dash(name) ==
    [i \in 1..Len(name) |-> IF name[i] = "-" THEN "_" ELSE name[i]]

\* ', '.join(errors)
RECURSIVE join(_)
join(errors) ==
    IF errors = <<>> THEN <<>>
    ELSE IF Len(errors) = 1 THEN errors[1]
    ELSE errors[1] \o <<","," ">> \o join(Tail(errors))

\* Action.validate_params(kwargs): one message per required parameter that is
\* missing and per parameter of the wrong type, in the order of the parameters
RECURSIVE validate_params(_, _)
validate_params(parameters, kw) ==
    IF parameters = <<>> THEN <<>>
    ELSE LET param == Head(parameters)
             errors == validate_params(Tail(parameters), kw)
         IN  IF param.required /\ ~HasKey(kw, param.name)
             THEN <<<<"M","i","s","s","i","n","g"," ","r","e","q","u","i","r","e","d"," ","p","a","r","a","m","e","t","e","r",":"," ">> \o param.name>> \o errors
             ELSE IF HasKey(kw, param.name) /\ GetItem(kw, param.name).t # param.type
             THEN <<<<"I","n","v","a","l","i","d"," ","t","y","p","e"," ","f","o","r"," ">> \o param.name>> \o errors
             ELSE errors

\* perform_action without the check of the parameters
perform_action_unvalidated(name, kw) ==
    IF ~\E a \in actions : a.name = name
    THEN [raised |-> Exception("KeyError", repr(<<"U","n","k","n","o","w","n"," ","a","c","t","i","o","n",":"," ">> \o name)),
          method |-> <<>>]
    ELSE LET method == replace_dash(name)
         IN  IF method \notin Attributes
             THEN [raised |-> Exception("AttributeError",
                                  <<"'","D","a","t","a","C","o","n","n","e","c","t","i","o","n","'"," ","o","b","j","e","c","t"," ","h","a","s"," ","n","o"," ","a","t","t","r","i","b","u","t","e"," ">> \o repr(method)),
                   method |-> <<>>]
             ELSE IF {kw.keys[i] : i \in 1..Len(kw.keys)} # Signature(method)
             THEN [raised |-> TypeError(method \o <<"(",")"," ","g","o","t"," ","u","n","e","x","p","e","c","t","e","d"," ","o","r"," ","m","i","s","s","i","n","g"," ","a","r","g","u","m","e","n","t","s">>),
                   method |-> <<>>]
             ELSE [raised |-> NoException, method |-> method]

\* perform_action(action_name, kwargs) up to the call of the method: the
\* exception it raises, or the name of the method it calls with kwargs
perform_action(name, kw) ==
    IF ~\E a \in actions : a.name = name
    THEN [raised |-> Exception("KeyError", repr(<<"U","n","k","n","o","w","n"," ","a","c","t","i","o","n",":"," ">> \o name)),
          method |-> <<>>]
    ELSE LET action == CHOOSE a \in actions : a.name = name
             errors == validate_params(action.parameters, kw)
             method == replace_dash(name)
         IN  IF errors # <<>>
             THEN [raised |-> Exception("ValueError",
                                  <<"I","n","v","a","l","i","d"," ","p","a","r","a","m","e","t","e","r","s",":"," ">> \o join(errors)),
                   method |-> <<>>]
             ELSE IF method \notin Attributes
             THEN [raised |-> Exception("AttributeError",
                                  <<"'","D","a","t","a","C","o","n","n","e","c","t","i","o","n","'"," ","o","b","j","e","c","t"," ","h","a","s"," ","n","o"," ","a","t","t","r","i","b","u","t","e"," ">> \o repr(method)),
                   method |-> <<>>]
             ELSE IF {kw.keys[i] : i \in 1..Len(kw.keys)} # Signature(method)
             THEN [raised |-> TypeError(method \o <<"(",")"," ","g","o","t"," ","u","n","e","x","p","e","c","t","e","d"," ","o","r"," ","m","i","s","s","i","n","g"," ","a","r","g","u","m","e","n","t","s">>),
                   method |-> <<>>]
             ELSE [raised |-> NoException, method |-> method]

\* a call of perform_action(name, kw): the exception reaches the caller, or
\* the method runs (execute_query up to its await)
PerformAction(name, kw) ==
    /\ pc = "idle"
    /\ action_name' = name
    /\ kwargs' = kw
    /\ LET call == perform_action(name, kw)
       IN  /\ method_name' = call.method
           /\ IF call.raised # NoException
              THEN /\ raised' = call.raised
                   /\ pc' = "done"
                   /\ UNCHANGED <<sql, query_type, posts, outcome, result>>
              ELSE IF call.method = <<"e","x","e","c","u","t","e","_","q","u","e","r","y">>
              THEN ExecuteQueryStart(GetItem(kw, <<"s","q","l">>).s)
              ELSE /\ result' = IF call.method = <<"g","e","t","_","d","a","t","a","b","a","s","e","_","s","c","h","e","m","a">>
                                THEN get_database_schema ELSE get_query_examples
                   /\ pc' = "done"
                   /\ UNCHANGED <<sql, query_type, posts, outcome, raised>>
    /\ UNCHANGED extract_vars

\* the action names explored
ActionNames ==
    { <<"e","x","e","c","u","t","e","-","q","u","e","r","y">>, <<"g","e","t","-","s","c","h","e","m","a">>, <<"g","e","t","-","e","x","a","m","p","l","e","s">>, <<"u","n","k","n","o","w","n","-","a","c","t","i","o","n">>,
      <<"e","x","e","c","u","t","e","_","q","u","e","r","y">>, <<"g","e","t","-","d","a","t","a","b","a","s","e","-","s","c","h","e","m","a">> }

\* the kwargs explored: none, sql alone (a str or a number), a parameter the
\* action does not declare
KwargsInputs ==
    { JDict(<<>>, <<>>), JDict(<<<<"s","q","l">>>>, <<JNum(7)>>), JDict(<<<<"l","i","m","i","t">>>>, <<JNum(7)>>) }
    \cup {JDict(<<<<"s","q","l">>>>, <<JStr(s)>>) : s \in SqlInputs}
    \cup {JDict(<<<<"s","q","l">>, <<"l","i","m","i","t">>>>, <<JStr(s), JNum(7)>>) : s \in SqlSamples}

CallAction ==
    pc = "idle" /\ \E name \in ActionNames : \E kw \in KwargsInputs : PerformAction(name, kw)
NextAction == CallAction \/ ReceiveSample
SpecAction == Init /\ [][NextAction]_vars

----------------------------------------------------------------------------
(* Claims about execute_query. *)

\* the body the POST came back with
body == outcome.body

\* the POST came back with status 200 and a decoded body
GotBody == outcome.kind = "response" /\ outcome.status = 200

\* the body carries every key execute_query and the transform read
WellKeyed ==
    /\ GotBody
    /\ body.is_dict
    /\ {"code", "msg", "data"} \subseteq body.keys
    /\ {"column_infos", "rows"} \subseteq body.data.keys
    /\ \A r \in 1..Len(body.data.rows) : body.data.rows[r].has_items

\* the invocation ended in one of the failures C1 lists
FailureCase ==
    \/ InvalidSql(sql)
    \/ outcome.kind \in {"raise", "bad_json"}
    \/ outcome.kind = "response" /\ outcome.status # 200
    \/ GotBody /\ (~body.is_dict \/ "code" \notin body.keys \/ body.code # 0)
    \/ GotBody /\ ~_transform_api_response(body).ok

\* C1: execute_query never raises to its caller; after an invalid sql, a
\* transport exception, a status other than 200, a body whose code is not 0 or
\* a body the transform fails on, it returns success = false, data = [],
\* total = 0, queryType = "unknown" and an error whose message is the failure
\* text (for a code other than 0, a text containing the body's msg).
C1_NeverRaises ==
    /\ raised = NoException
    /\ (pc = "done" /\ FailureCase) =>
        /\ result.success = FALSE
        /\ result.data = <<>>
        /\ result.metadata.total = 0
        /\ result.metadata.queryType = "unknown"
        /\ result.error # None
        /\ InvalidSql(sql) => result.error.message = <<"I","n","v","a","l","i","d"," ","S","Q","L"," ","q","u","e","r","y"," ","l","e","n","g","t","h">>
        /\ (~InvalidSql(sql) /\ outcome.kind = "raise")
              => result.error.message = outcome.exc.text
        /\ (~InvalidSql(sql) /\ outcome.kind \in {"response", "bad_json"}
              /\ outcome.status # 200)
              => Contains(IntToStr(outcome.status), result.error.message)
        /\ (~InvalidSql(sql) /\ GotBody /\ body.is_dict
              /\ {"code", "msg"} \subseteq body.keys /\ body.code # 0)
              => Contains(body.msg, result.error.message)

\* C1's case: the API answered code 1, msg "bad query", and the caller got the
\* error dictionary with that text
C1_Witness ==
    /\ pc = "done"
    /\ GotBody /\ body.is_dict /\ body.keys = {"code", "msg"}
    /\ body.code = 1 /\ body.msg = <<"b","a","d"," ","q","u","e","r","y">>
    /\ raised = NoException
    /\ result.success = FALSE
    /\ result.error.message = <<"A","P","I"," ","E","r","r","o","r",":"," ","b","a","d"," ","q","u","e","r","y">>

\* C2 as stated: error is non-null iff success is false, and data is empty iff
\* success is false.
C2_Original ==
    pc = "done" =>
        /\ (result.error # None) <=> (result.success = FALSE)
        /\ (result.data = <<>>) <=> (result.success = FALSE)

\* C2 amended: error is non-null iff success is false; data is empty whenever
\* success is false; a successful result holds one record per row of the
\* response, so its data is empty exactly when the API returned zero rows.
C2_ErrorIffFailure ==
    pc = "done" =>
        /\ (result.error # None) <=> (result.success = FALSE)
        /\ (result.success = FALSE) => (result.data = <<>>)
        /\ (result.success = TRUE) =>
              ((result.data = <<>>) <=> (body.data.rows = <<>>))

\* C2's case: a successful query that returned zero rows
C2_Witness ==
    /\ pc = "done"
    /\ WellKeyed /\ body.code = 0 /\ body.data.rows = <<>>
    /\ result.success = TRUE
    /\ result.data = <<>>
    /\ result.error = None

\* C3: an empty sql or one longer than 5000 characters ends in success = false
\* with an error and without any HTTP POST; a sql of 1 to 5000 characters
\* passes validation and reaches the send step.
C3_LengthValidation ==
    pc # "idle" =>
        IF Len(sql) = 0 \/ Len(sql) > 5000
        THEN /\ pc = "done"
             /\ posts = 0
             /\ result.success = FALSE
             /\ result.error # None
        ELSE posts = 1

\* C3's case: a sql of 5001 characters was refused before any POST
C3_Witness ==
    /\ pc = "done"
    /\ Len(sql) = 5001
    /\ posts = 0
    /\ result.success = FALSE

\* C9: on success, queryType is "token" if the sql contains token_transfers in
\* any case (also when it contains count), otherwise "aggregate" if it
\* contains count, otherwise "transaction"; never "unknown".
C9_QueryType ==
    (pc = "done" /\ result.success = TRUE) =>
        /\ result.metadata.queryType # "unknown"
        /\ result.metadata.queryType =
              IF Contains(<<"t","o","k","e","n","_","t","r","a","n","s","f","e","r","s">>, lower(sql)) THEN "token"
              ELSE IF Contains(<<"c","o","u","n","t">>, lower(sql)) THEN "aggregate"
              ELSE "transaction"

\* C9's case: a successful query whose sql holds both COUNT and an upper-case
\* spelling of token_transfers is classified "token"
C9_Witness ==
    /\ pc = "done"
    /\ result.success = TRUE
    /\ Contains(<<"C","O","U","N","T">>, sql)
    /\ Contains(<<"T","o","k","e","n","_","T","R","A","N","S","F","E","R","S">>, sql)
    /\ result.metadata.queryType = "token"

\* the names of the first n columns
FirstColumns(column_infos, n) ==
    {column_infos[i] : i \in 1..n}

\* C8 as stated: one record per row, in row order; for every row r and every
\* column index i the record of row r maps column_infos[i] to rows[r].items[i];
\* total is the number of rows.
C8_Original ==
    (pc = "done" /\ result.success = TRUE) =>
        LET column_infos == body.data.column_infos
            rows == body.data.rows
        IN  /\ Len(result.data) = Len(rows)
            /\ result.metadata.total = Len(rows)
            /\ \A r \in 1..Len(rows) : \A i \in 1..Len(column_infos) :
                  /\ i \in DOMAIN rows[r].items
                  /\ column_infos[i] \in DOMAIN result.data[r]
                  /\ result.data[r][column_infos[i]] = rows[r].items[i]

\* C8 amended: one record per row, in row order, and total is the number of
\* rows; for every row r and every index i of that row's items, the record of
\* row r maps column_infos[i] to rows[r].items[i] unless the same name recurs
\* at a later index of the items (the later item is kept); the record has no
\* key beyond the names at the indices of the row's items.
C8_Transform ==
    (pc = "done" /\ result.success = TRUE) =>
        LET column_infos == body.data.column_infos
            rows == body.data.rows
        IN  /\ Len(result.data) = Len(rows)
            /\ result.metadata.total = Len(rows)
            /\ \A r \in 1..Len(rows) :
                  LET items == rows[r].items
                  IN  /\ Len(items) <= Len(column_infos)
                      /\ DOMAIN result.data[r] = FirstColumns(column_infos, Len(items))
                      /\ \A i \in 1..Len(items) :
                            (\A j \in (i + 1)..Len(items) :
                                column_infos[j] # column_infos[i])
                            => result.data[r][column_infos[i]] = items[i]

\* C8's case: columns a, b and the rows [1, 2], [2, 1] became the records
\* {a: 1, b: 2}, {a: 2, b: 1}
C8_Witness ==
    /\ pc = "done"
    /\ result.success = TRUE
    /\ body.data.column_infos = <<"a", "b">>
    /\ body.data.rows = <<Row(<<1, 2>>), Row(<<2, 1>>)>>
    /\ result.data = <<[a |-> 1, b |-> 2], [a |-> 2, b |-> 1]>>
    /\ result.metadata.total = 2

\* C10 as stated: the transform fails whenever some row's items is shorter
\* than column_infos, and no record returned misses a column of column_infos.
C10_Original ==
    (pc = "done" /\ WellKeyed /\ body.code = 0) =>
        LET column_infos == body.data.column_infos
            rows == body.data.rows
        IN  /\ (\E r \in 1..Len(rows) : Len(rows[r].items) < Len(column_infos))
                  => result.success = FALSE
            /\ result.success = TRUE =>
                  \A r \in 1..Len(result.data) : \A i \in 1..Len(column_infos) :
                      column_infos[i] \in DOMAIN result.data[r]

\* C10 amended: on a body with all its keys and code 0, the transform fails
\* (an IndexError, reported as success = false) exactly when some row's items
\* is longer than column_infos; a row whose items is shorter yields a record
\* with the names of the first len(items) columns only.
C10_TransformFailure ==
    (pc = "done" /\ WellKeyed /\ body.code = 0) =>
        LET column_infos == body.data.column_infos
            rows == body.data.rows
        IN  /\ (result.success = FALSE) <=>
                  (\E r \in 1..Len(rows) : Len(rows[r].items) > Len(column_infos))
            /\ result.success = FALSE =>
                  result.error.message = <<"l","i","s","t"," ","i","n","d","e","x"," ","o","u","t"," ","o","f"," ","r","a","n","g","e">>
            /\ result.success = TRUE =>
                  \A r \in 1..Len(rows) :
                      DOMAIN result.data[r] =
                          FirstColumns(column_infos, Len(rows[r].items))

\* C10's case: a row with fewer items than columns went through, and its
\* record misses the column b
C10_Witness ==
    /\ pc = "done"
    /\ WellKeyed
    /\ body.data.column_infos = <<"a", "b">>
    /\ body.data.rows = <<Row(<<1>>)>>
    /\ result.success = TRUE
    /\ result.data = <<[a |-> 1]>>

----------------------------------------------------------------------------
(* Claims about _extract_sql_query. *)

\* _extract_sql_query was called with a str that json.loads refuses
UnparseableText ==
    /\ sql_query # NotCalled
    /\ pre_response.t = "str"
    /\ ~json_loads(pre_response.s).ok

\* C6 as stated: for a str argument that is not parseable as JSON, the raw
\* string itself is searched as the value, so that the raw input
\* "SELECT * FROM t" is returned.
C6_Original ==
    UnparseableText => sql_query = find_sql_query(JStr(pre_response.s))

\* C6 amended: for a str argument that is not parseable as JSON,
\* _extract_sql_query returns no match whatever the string holds (the raw
\* input "SELECT * FROM t" yields None); a str argument is searched only
\* through the value json.loads makes of it.
C6_UnparseableIsNoMatch ==
    /\ UnparseableText => (sql_query = None /\ json_data = NoJson)
    /\ (sql_query # NotCalled /\ pre_response = JStr(<<"S","E","L","E","C","T"," ","*"," ","F","R","O","M"," ","t">>))
          => sql_query = None
    /\ (sql_query # NotCalled /\ pre_response.t = "str" /\ sql_query # None)
          => /\ json_data # NoJson
             /\ json_data # pre_response

\* C6's case: the raw input "SELECT * FROM t" was given and nothing was found
C6_Witness ==
    /\ pc = "done"
    /\ pre_response = JStr(<<"S","E","L","E","C","T"," ","*"," ","F","R","O","M"," ","t">>)
    /\ sql_query = None

\* the str values inside a JSON-like value (dict keys are not values)
RECURSIVE StringsIn(_)
StringsIn(v) ==
    IF v.t = "str" THEN {v.s}
    ELSE UNION {StringsIn(v.items[i]) : i \in 1..Len(v.items)}

\* the lowercased string contains one of the six unsafe keywords
HasUnsafeKeyword(s) ==
    \E kw \in {<<"d","r","o","p">>, <<"d","e","l","e","t","e">>, <<"u","p","d","a","t","e">>, <<"i","n","s","e","r","t">>, <<"a","l","t","e","r">>, <<"c","r","e","a","t","e">>} :
        Contains(kw, lower(s))

\* the string begins, in any case, with SELECT or WITH
BeginsWithSelectOrWith(s) ==
    \E kw \in {<<"s","e","l","e","c","t">>, <<"w","i","t","h">>} :
        Len(s) >= Len(kw) /\ lower(SubSeq(s, 1, Len(kw))) = kw

\* a string find_sql_query accepts: safe, and of the pattern once trimmed
SafeQuery(v) ==
    v.t = "str" /\ ~HasUnsafeKeyword(v.s) /\ MatchesSqlPattern(strip(v.s))

\* C7: whatever find_sql_query returns for a JSON-like value is the trimmed
\* form of a string of the structure, holds none of drop, delete, update,
\* insert, alter, create in its lowercased text and begins with SELECT or
\* WITH in any case; a structure whose strings all hold an unsafe keyword
\* yields no match; an unsafe string earlier in a list or dict does not keep
\* a later safe one from being returned.
C7_SafeExtraction ==
    (sql_query # NotCalled /\ json_data # NoJson) =>
        /\ sql_query # None =>
              /\ \E s \in StringsIn(json_data) : sql_query.value = strip(s)
              /\ sql_query.value = strip(sql_query.value)
              /\ sql_query.value # <<>>
              /\ ~HasUnsafeKeyword(sql_query.value)
              /\ BeginsWithSelectOrWith(sql_query.value)
        /\ (\A s \in StringsIn(json_data) : HasUnsafeKeyword(s)) => sql_query = None
        /\ (/\ json_data.t \in {"list", "dict"}
            /\ \E i, j \in 1..Len(json_data.items) :
                  /\ i < j
                  /\ json_data.items[i].t = "str"
                  /\ HasUnsafeKeyword(json_data.items[i].s)
                  /\ SafeQuery(json_data.items[j]))
              => (sql_query # None /\ ~HasUnsafeKeyword(sql_query.value))

\* C7's case: a list with an unsafe string ahead of a padded safe one gave
\* the safe one, trimmed
C7_Witness ==
    /\ pc = "done"
    /\ json_data = JList(<<JStr(<<"S","E","L","E","C","T"," ","*"," ","F","R","O","M"," ","u","p","d","a","t","e","s">>),
                           JStr(<<" "," ","w","i","t","h"," ","t"," ","a","s"," ","(","s","e","l","e","c","t"," ","2",")"," ">>)>>)
    /\ sql_query = Some(<<"w","i","t","h"," ","t"," ","a","s"," ","(","s","e","l","e","c","t"," ","2",")">>)

----------------------------------------------------------------------------
(* Claims about perform_action. *)

\* the names of the three registered actions
RegisteredNames == {<<"e","x","e","c","u","t","e","-","q","u","e","r","y">>, <<"g","e","t","-","s","c","h","e","m","a">>, <<"g","e","t","-","e","x","a","m","p","l","e","s">>}

\* kwargs holds exactly the parameters the action declares, sql being a str
DeclaredKwargs ==
    IF action_name = <<"e","x","e","c","u","t","e","-","q","u","e","r","y">>
    THEN kwargs.keys = <<<<"s","q","l">>>> /\ kwargs.items[1].t = "str"
    ELSE kwargs.keys = <<>>

\* C4: perform_action on a registered action with valid parameters calls the
\* matching handler and returns its result: get-schema the text of
\* get_database_schema, get-examples the text of get_query_examples,
\* execute-query the result of execute_query; the dispatch raises nothing.
C4_Dispatch ==
    (pc # "idle" /\ action_name \in RegisteredNames /\ DeclaredKwargs) =>
        /\ raised = NoException
        /\ action_name = <<"g","e","t","-","s","c","h","e","m","a">> =>
              (method_name = <<"g","e","t","_","d","a","t","a","b","a","s","e","_","s","c","h","e","m","a">> /\ result = get_database_schema)
        /\ action_name = <<"g","e","t","-","e","x","a","m","p","l","e","s">> =>
              (method_name = <<"g","e","t","_","q","u","e","r","y","_","e","x","a","m","p","l","e","s">> /\ result = get_query_examples)
        /\ action_name = <<"e","x","e","c","u","t","e","-","q","u","e","r","y">> =>
              /\ method_name = <<"e","x","e","c","u","t","e","_","q","u","e","r","y">>
              /\ sql = kwargs.items[1].s
              /\ pc = "done" => result # NoResult

\* C5: perform_action with a name that is not registered fails with an
\* unknown-action error, and perform_action("execute-query", {}) fails with a
\* validation error; the error reaches the caller, no handler was called and
\* no POST was issued.
C5_DispatchErrors ==
    pc # "idle" =>
        /\ action_name \notin RegisteredNames =>
              /\ pc = "done"
              /\ raised.type = "KeyError"
              /\ Contains(<<"U","n","k","n","o","w","n"," ","a","c","t","i","o","n",":"," ">> \o action_name, raised.text)
              /\ method_name = <<>>
              /\ posts = 0
              /\ result = NoResult
        /\ (action_name = <<"e","x","e","c","u","t","e","-","q","u","e","r","y">> /\ ~HasKey(kwargs, <<"s","q","l">>)) =>
              /\ pc = "done"
              /\ raised.type = "ValueError"
              /\ Contains(<<"I","n","v","a","l","i","d"," ","p","a","r","a","m","e","t","e","r","s">>, raised.text)
              /\ method_name = <<>>
              /\ posts = 0
              /\ result = NoResult

\* C5's case: perform_action("execute-query", {}) ended in the validation
\* error, with no method called and no POST
C5_Witness ==
    /\ pc = "done"
    /\ action_name = <<"e","x","e","c","u","t","e","-","q","u","e","r","y">>
    /\ kwargs = JDict(<<>>, <<>>)
    /\ raised.type = "ValueError"
    /\ method_name = <<>>
    /\ posts = 0

====
